---- MODULE Spec2Model ----
(***************************************************************************)
(* The APDU dispatcher of components/apdu-dispatch/src/dispatch.rs as a    *)
(* state machine.  One Poll step is one call of ApduDispatch::poll, which  *)
(* runs to completion; the readers act through the two interchange         *)
(* channels (Post: a request is sent, Reclaim: a response is taken).       *)
(* Byte strings are sequences of numbers 0..255.  A reader can only move a *)
(* channel Idle -> Requested and Responded -> Idle, and while a poll has   *)
(* taken a request the other channel is not Responded, so a reader step    *)
(* during a poll commutes with it: a poll is modelled as one atomic step.  *)
(*                                                                         *)
(* Spec has both readers and short messages.  SpecChain has chains of      *)
(* blocks that fill a message, SpecDrain responses up to the capacity of a *)
(* response, and SpecPort the dispatcher built for messages of 256 bytes;  *)
(* in these three the contact reader acts alone and the exchange for the   *)
(* request in hand is recorded in the variable exchange.  SpecBoth has     *)
(* chains sent by both readers, and SpecLive the fairness of poll and of   *)
(* the readers' reclaiming.                                                *)
(*                                                                         *)
(* SpecLog is the deferred logger of components/delog/src/logger.rs, whose *)
(* try_enqueue is a sequence of steps that a call from an interrupt may    *)
(* come between; the dispatcher is at rest in it, as the logger is in the  *)
(* others.                                                                 *)
(***************************************************************************)
EXTENDS Integers, Sequences, FiniteSets, TLC

VARIABLES current_aid, contact, contactless, current_interface, buffer,
          was_request_chained, panicked, selected, respOrigin, log, exchange,
          BUFFER, READ, WRITTEN, LOCAL_BUFFER, frames, journal

\* The dispatcher with what is recorded about it
dispatcher == << current_aid, contact, contactless, current_interface, buffer,
                 was_request_chained, panicked, selected, respOrigin, log, exchange >>

\* The statics of the deferred logger of components/delog/src/logger.rs,
\* the frames of the calls of try_enqueue in progress, and what is recorded
\* about the calls
delogger == << BUFFER, READ, WRITTEN, LOCAL_BUFFER, frames, journal >>

vars == << dispatcher, delogger >>

(***************************************************************************)
(* Program constants.                                                      *)
(***************************************************************************)
\* Status::Success, 0x9000
SW_SUCCESS == 36864
\* the base of "more data available", 0x6100
SW_MORE_AVAILABLE == 24832
\* Status::NotFound, 0x6A82
SW_NOT_FOUND == 27266
\* Status::UnspecifiedCheckingError, 0x6F00
SW_UNSPECIFIED_CHECKING_ERROR == 28416
\* Instruction::Select, 0xA4
INS_SELECT == 164
\* Instruction::GetResponse, 0xC0
INS_GET_RESPONSE == 192
\* the SELECT by DF name bit of P1, 0x04
P1_BY_NAME == 4
\* the chaining bit of the class byte, 0x10
CLA_CHAIN == 16
\* the invalid class byte, 0xFF
CLA_INVALID == 255
\* the capacity of an Aid
AID_SIZE == 16
\* interchanges::SIZE, the capacity of a message on a channel
INTERCHANGE_SIZE == 3072
\* command::Size, the capacity of a buffered command's data
COMMAND_SIZE == 7609
\* response::Size, the capacity of an application's response
RESPONSE_SIZE == 7609
\* the most data bytes of one chained reply
CHUNK_SIZE == 256
\* the most remaining bytes that 61xx can state
MAX_REMAINING == 255

Contact == "Contact"
Contactless == "Contactless"
Interface == {Contact, Contactless}

(***************************************************************************)
(* Bounds of the model.                                                    *)
(***************************************************************************)
\* A reader sends a further chained block only while fewer than this many
\* data bytes are buffered.
MaxChainData == 2
\* The length of the long response an application may return.
BigLen == 257

(***************************************************************************)
(* Values.                                                                 *)
(***************************************************************************)
Min(S) == CHOOSE x \in S : \A y \in S : x <= y

\* u16::to_be_bytes of a status word: Status -> Data
SWBytes(sw) == << sw \div 256, sw % 256 >>

Command(cla, ins, p1, p2, data, le) ==
    [cla |-> cla, ins |-> ins, p1 |-> p1, p2 |-> p2, data |-> data, le |-> le]

\* iso7816::Command::try_from(&[0,0,0,0])
EmptyCommand == Command(0, 0, 0, 0, << >>, 0)

\* RawApduBuffer
BufNone == [tag |-> "None", cmd |-> EmptyCommand, data |-> << >>]
BufRequest(c) == [tag |-> "Request", cmd |-> c, data |-> << >>]
BufResponse(d) == [tag |-> "Response", cmd |-> EmptyCommand, data |-> d]

\* Option<Aid>
NoAid == [some |-> FALSE, aid |-> << >>]
SomeAid(a) == [some |-> TRUE, aid |-> a]

\* interchange: a channel and the message it carries
Idle == [state |-> "Idle", msg |-> << >>]
Requested(m) == [state |-> "Requested", msg |-> m]
Processing == [state |-> "Processing", msg |-> << >>]
Responded(m) == [state |-> "Responded", msg |-> m]

\* What the last poll did: the channel it took a request from, the parser's
\* verdict, the request type, the applications it invoked, the messages it
\* posted, the response bytes it drained, and what it returned.
NoLog == [polled |-> FALSE, taken |-> "none", parsed |-> "none", rtype |-> "None",
          aid |-> << >>, calls |-> << >>, out |-> << >>, drained |-> << >>,
          ret |-> "None"]
StartLog == [NoLog EXCEPT !.polled = TRUE]

\* What the readers and the dispatcher have exchanged for the request in
\* hand: the blocks taken for it in the order taken (channel and parsed
\* command), the response the application returned for it, the data bytes
\* sent to the reader for it so far (every reply without its last two
\* bytes) and the number of replies, the status word of the last reply (0
\* for none), the channel they were sent on, and whether only GET RESPONSEs
\* of that channel have followed the request.
NoExchange == [blocks |-> << >>, response |-> << >>, received |-> << >>,
               replies |-> 0, sw |-> 0, chan |-> "none", draining |-> FALSE]

(***************************************************************************)
(* The APDU parser, iso7816::Command::try_from.                            *)
(***************************************************************************)
ParseErr == [ok |-> FALSE, lc |-> 0, le |-> 0, offset |-> 0]
ParseOk(lc, le, offset) == [ok |-> TRUE, lc |-> lc, le |-> le, offset |-> offset]

parse_lengths(body) ==
    LET l == Len(body)
        b1 == IF l > 0 THEN body[1] ELSE 0
        lcx == IF l >= 3 THEN body[2] * 256 + body[3] ELSE 0
    IN  IF l = 0 THEN ParseOk(0, 0, 0)
        ELSE IF l = 1 THEN ParseOk(0, IF b1 # 0 THEN b1 ELSE 256, 0)
        ELSE IF b1 # 0 /\ l = 1 + b1 THEN ParseOk(b1, 0, 1)
        ELSE IF b1 # 0 /\ l = 2 + b1
             THEN ParseOk(b1, IF body[l] # 0 THEN body[l] ELSE 256, 1)
        ELSE IF b1 # 0 \/ l < 3 THEN ParseErr
        ELSE IF l = 3 THEN ParseOk(0, IF lcx # 0 THEN lcx ELSE 65536, 0)
        ELSE IF lcx # 0 /\ l = 3 + lcx THEN ParseOk(lcx, 0, 3)
        ELSE IF lcx # 0 /\ l = 5 + lcx
             THEN ParseOk(lcx, body[l - 1] * 256 + body[l], 3)
        ELSE ParseErr

Command_try_from(message) ==
    IF Len(message) < 4 THEN [ok |-> FALSE, cmd |-> EmptyCommand]
    ELSE IF message[1] = CLA_INVALID THEN [ok |-> FALSE, cmd |-> EmptyCommand]
    ELSE LET p == parse_lengths(SubSeq(message, 5, Len(message)))
         IN  IF ~p.ok THEN [ok |-> FALSE, cmd |-> EmptyCommand]
             ELSE [ok |-> TRUE,
                   cmd |-> Command(message[1], message[2], message[3], message[4],
                                   SubSeq(message, 4 + p.offset + 1,
                                          4 + p.offset + p.lc),
                                   p.le)]

\* command.class().chain().not_the_last()
not_the_last(cla) == (cla \div CLA_CHAIN) % 2 = 1

\* Command::extend_from_command: the data is appended when it fits (the
\* caller drops the Err).  The header is the argument's: the buffer starts
\* every request from the all-zero command of line 57 and extends it, and
\* the applications are handed the header of what was sent.
extend_from_command(self, command) ==
    [command EXCEPT !.data = IF Len(self.data) + Len(command.data) <= COMMAND_SIZE
                             THEN self.data \o command.data
                             ELSE self.data]

(***************************************************************************)
(* ApduBuffer.                                                             *)
(***************************************************************************)
\* ApduBuffer::request that stores nothing: the buffer is left empty
ApduBuffer_request_dropping(raw, command) == BufNone

\* ApduBuffer::request without its Request arm (lines 50-52): every block
\* starts the request anew
ApduBuffer_request_restarting(raw, command) ==
    BufRequest(extend_from_command(EmptyCommand, command))

ApduBuffer_request(raw, command) ==
    IF raw.tag = "Request"
    THEN BufRequest(extend_from_command(raw.cmd, command))
    ELSE BufRequest(extend_from_command(EmptyCommand, command))

ApduBuffer_response(raw, response) == BufResponse(response)

(***************************************************************************)
(* ApduDispatch.  Each method is an operator from the dispatcher's state   *)
(* (a record s of the variables) to the state it leaves.  A panic (a       *)
(* failed unwrap or expect, a panic!) sets s.panicked and ends the poll.   *)
(* s.SIZE is interchanges::SIZE of the build, the capacity of a message.   *)
(***************************************************************************)
RType(rt, aid) == [rt |-> rt, aid |-> aid, panic |-> FALSE]
RTypePanic == [rt |-> "None", aid |-> << >>, panic |-> TRUE]

PanicIn(s) == [s EXCEPT !.panicked = TRUE]

apdu_type(apdu) ==
    IF apdu.ins = INS_SELECT /\ (apdu.p1 \div P1_BY_NAME) % 2 # 0
    THEN \* Aid::try_from_slice(apdu.data()).unwrap()
         IF Len(apdu.data) <= AID_SIZE THEN RType("Select", apdu.data)
                                       ELSE RTypePanic
    ELSE IF apdu.ins = INS_GET_RESPONSE THEN RType("GetResponse", << >>)
    ELSE RType("NewCommand", << >>)

starts_with(aid, prefix) ==
    Len(prefix) <= Len(aid) /\ SubSeq(aid, 1, Len(prefix)) = prefix

\* find_app returning the last application that matches
find_app_last(aid, apps) ==
    IF ~aid.some THEN 0
    ELSE LET found == {i \in 1..Len(apps) : starts_with(aid.aid, apps[i].aid)}
         IN  IF found = {} THEN 0 ELSE CHOOSE i \in found : \A j \in found : j <= i

\* The index in apps of the application found, 0 for None.
find_app(aid, apps) ==
    IF ~aid.some THEN 0
    ELSE LET found == {i \in 1..Len(apps) : starts_with(aid.aid, apps[i].aid)}
         IN  IF found = {} THEN 0 ELSE Min(found)

\* busy without its look at the contact channel
busy_contactless_only(s) == s.contactless.state \notin {"Idle", "Requested"}

busy(s) ==
    LET contactless_busy == s.contactless.state \notin {"Idle", "Requested"}
        contact_busy == s.contact.state \notin {"Idle", "Requested"}
    IN  contactless_busy \/ contact_busy

\* Responder::take_request
take_request(chan) ==
    IF chan.state = "Requested" THEN [some |-> TRUE, msg |-> chan.msg, chan |-> Processing]
    ELSE [some |-> FALSE, msg |-> << >>, chan |-> chan]

\* Responder::respond: Err unless the channel is Processing
Responder_respond(chan, message) ==
    IF chan.state = "Processing" THEN [ok |-> TRUE, chan |-> Responded(message)]
    ELSE [ok |-> FALSE, chan |-> chan]

\* self.<interface>.respond(message).expect(..): the call is logged, and it
\* panics when the channel refuses the message.
respond_on(s, interface, message) ==
    LET r == Responder_respond(IF interface = Contactless THEN s.contactless
                               ELSE s.contact, message)
        posted == [s EXCEPT !.log.out = Append(@, [chan |-> interface, msg |-> message])]
    IN  IF ~r.ok THEN PanicIn(posted)
        ELSE IF interface = Contactless
             THEN [posted EXCEPT !.contactless = r.chan]
             ELSE [posted EXCEPT !.contact = r.chan]

respond(s, message) == respond_on(s, s.current_interface, message)

\* set_current_interface without its assignment: the interface of an earlier
\* request stays
set_current_interface_skipped(s, inferface) == s

\* line 149
set_current_interface(s, inferface) == [s EXCEPT !.current_interface = inferface]

buffer_chained_apdu_if_needed(s, command, inferface) ==
    LET s1 == set_current_interface(s, inferface)
    IN  IF ~not_the_last(command.cla)
        THEN IF s1.buffer.tag = "Request"
             THEN [s |-> [s1 EXCEPT !.buffer = ApduBuffer_request(@, command),
                                    !.was_request_chained = TRUE],
                   t |-> RType("NewCommand", << >>)]
             ELSE LET s2 == IF s1.buffer.tag = "None"
                            THEN [s1 EXCEPT !.was_request_chained = FALSE]
                            ELSE s1
                      apdu_t == apdu_type(command)
                  IN  IF apdu_t.panic THEN [s |-> PanicIn(s2), t |-> apdu_t]
                      ELSE IF apdu_t.rt = "GetResponse" THEN [s |-> s2, t |-> apdu_t]
                      ELSE [s |-> [s2 EXCEPT !.buffer = ApduBuffer_request(@, command)],
                            t |-> apdu_t]
        ELSE LET s2 == respond_on(s1, inferface, SWBytes(SW_SUCCESS))
             IN  IF s2.panicked THEN [s |-> s2, t |-> RTypePanic]
                 ELSE [s |-> [s2 EXCEPT !.buffer = ApduBuffer_request(@, command)],
                       t |-> RType("None", << >>)]

\* Err(Status::UnspecifiedCheckingError) for every error of the parser
parse_apdu(message) ==
    LET r == Command_try_from(message)
    IN  IF r.ok THEN [ok |-> TRUE, cmd |-> r.cmd, status |-> SW_SUCCESS]
        ELSE [ok |-> FALSE, cmd |-> r.cmd, status |-> SW_UNSPECIFIED_CHECKING_ERROR]

\* reject_invalid_apdu that also drops what is buffered
reject_invalid_apdu_clearing(s, interface, status) ==
    [respond_on(s, interface, SWBytes(status)) EXCEPT !.buffer = BufNone]

\* reject_invalid_apdu answering through respond, on current_interface
reject_invalid_apdu_on_current(s, interface, status) == respond(s, SWBytes(status))

\* lines 242-252: an invalid APDU is answered and not passed on
reject_invalid_apdu(s, interface, status) == respond_on(s, interface, SWBytes(status))

check_for_request(s) ==
    IF ~busy(s)
    THEN LET cl == take_request(s.contactless)
             ct == take_request(s.contact)
             interface == IF cl.some THEN Contactless ELSE Contact
             message == IF cl.some THEN cl.msg ELSE ct.msg
             s1 == IF cl.some THEN [s EXCEPT !.contactless = cl.chan]
                   ELSE [s EXCEPT !.contact = ct.chan]
             s2 == [s1 EXCEPT !.log.taken = interface]
             p == parse_apdu(message)
         IN  IF ~cl.some /\ ~ct.some THEN [s |-> s, t |-> RType("None", << >>)]
             ELSE IF p.ok
                  THEN buffer_chained_apdu_if_needed(
                           [s2 EXCEPT !.log.parsed = "ok"], p.cmd, interface)
                  ELSE LET s3 == reject_invalid_apdu([s2 EXCEPT !.log.parsed = "err"],
                                                     interface, p.status)
                       IN  [s |-> s3,
                            t |-> IF s3.panicked THEN RTypePanic ELSE RType("None", << >>)]
    ELSE [s |-> s, t |-> RType("None", << >>)]

\* reply_error without line 263: the buffer is left as it is
reply_error_keeping_buffer(s, status) == respond(s, SWBytes(status))

\* reply_error that also gives the selection up
reply_error_deselecting(s, status) ==
    LET s1 == respond(s, SWBytes(status))
    IN  IF s1.panicked THEN s1 ELSE [s1 EXCEPT !.buffer = BufNone, !.current_aid = NoAid]

reply_error(s, status) ==
    LET s1 == respond(s, SWBytes(status))
    IN  IF s1.panicked THEN s1 ELSE [s1 EXCEPT !.buffer = BufNone]

\* return_code without the test of line 291: the count is added whatever it is
return_code_unclamped(remaining_len) ==
    IF remaining_len > 0 THEN SW_MORE_AVAILABLE + remaining_len ELSE SW_SUCCESS

\* lines 291-299: the status word after a chunk
return_code_of(remaining_len) ==
    IF remaining_len > MAX_REMAINING THEN SW_MORE_AVAILABLE
    ELSE IF remaining_len > 0 THEN SW_MORE_AVAILABLE + remaining_len
    ELSE SW_SUCCESS

\* The reply in chaining mode, dispatch.rs lines 285-312: [panic, state, message]
chained_reply(res, SIZE) ==
    LET boundary == IF CHUNK_SIZE < Len(res) THEN CHUNK_SIZE ELSE Len(res)
        to_send == SubSeq(res, 1, boundary)
        remaining == SubSeq(res, boundary + 1, Len(res))
        return_code == return_code_of(Len(remaining))
        \* message.extend_from_slice(..).ok()
        message == IF Len(to_send) + 2 <= SIZE
                   THEN to_send \o SWBytes(return_code)
                   ELSE to_send
    IN  [panic |-> Len(to_send) > SIZE \/ Len(remaining) > RESPONSE_SIZE,
         state |-> IF return_code = SW_SUCCESS THEN BufNone ELSE BufResponse(remaining),
         message |-> message,
         data |-> to_send]

\* The reply in one message, dispatch.rs lines 315-317
single_reply(res, SIZE) ==
    LET \* res.extend_from_slice(&[0x90,00]).ok()
        full == IF Len(res) + 2 <= RESPONSE_SIZE THEN res \o SWBytes(SW_SUCCESS) ELSE res
    IN  [panic |-> Len(full) > SIZE,
         state |-> BufNone,
         message |-> full,
         data |-> res]

\* Whether the buffered response is sent in chaining mode, dispatch.rs line 283
reply_is_chained(s, res) == s.was_request_chained \/ Len(res) > s.SIZE

handle_reply(s) ==
    IF s.buffer.tag # "Response"
    THEN respond([s EXCEPT !.buffer = BufNone], SWBytes(SW_UNSPECIFIED_CHECKING_ERROR))
    ELSE LET res == s.buffer.data
             r == IF reply_is_chained(s, res) THEN chained_reply(res, s.SIZE)
                  ELSE single_reply(res, s.SIZE)
         IN  IF r.panic THEN PanicIn(s)
             ELSE respond([s EXCEPT !.buffer = r.state,
                                    !.log.drained = Append(@, [origin |-> s.respOrigin,
                                                               data |-> r.data])],
                          r.message)

handle_app_response(s, response, data) ==
    IF response.ok
    THEN handle_reply([s EXCEPT !.buffer = ApduBuffer_response(@, data),
                                !.respOrigin = s.current_interface])
    ELSE reply_error(s, response.status)

\* deselect_other without line 362: the application is deselected and its AID
\* stays
deselect_other_keeping_aid(s, apps, aid) ==
    IF s.current_aid.some /\ s.current_aid.aid # aid
    THEN LET app == find_app(s.current_aid, apps)
         IN  IF app = 0 THEN PanicIn(s)
             ELSE [s EXCEPT !.log.calls = Append(@, [op |-> "deselect", app |-> app,
                                                     ok |-> TRUE, status |-> SW_SUCCESS,
                                                     cmd |-> EmptyCommand,
                                                     interface |-> s.current_interface]),
                            !.selected = @ \ {app}]
    ELSE s

\* deselect_other without its deselect: the selected application is left as it is
deselect_other_skipped(s, apps, aid) == s

\* lines 357-364: a selected application with a different AID is deselected
deselect_other(s, apps, aid) ==
    IF s.current_aid.some /\ s.current_aid.aid # aid
    THEN LET app == find_app(s.current_aid, apps)
         IN  IF app = 0 THEN PanicIn(s)
             ELSE [s EXCEPT !.log.calls = Append(@, [op |-> "deselect", app |-> app,
                                                     ok |-> TRUE, status |-> SW_SUCCESS,
                                                     cmd |-> EmptyCommand,
                                                     interface |-> s.current_interface]),
                            !.selected = @ \ {app},
                            !.current_aid = NoAid]
    ELSE s

\* commit_select with its test negated: the AID is kept when select failed
commit_select_inverted(s, result, aid, app) ==
    IF ~result.ok THEN [s EXCEPT !.current_aid = SomeAid(aid)]
    ELSE [s EXCEPT !.selected = @ \cup {app}]

\* commit_select without its test of the result: the AID is kept also when
\* select returned Err
commit_select_unchecked(s, result, aid, app) ==
    [s EXCEPT !.current_aid = SomeAid(aid),
              !.selected = IF result.ok THEN @ \cup {app} ELSE @]

\* lines 376-378: the AID is kept when select returned Ok
commit_select(s, result, aid, app) ==
    IF result.ok THEN [s EXCEPT !.current_aid = SomeAid(aid), !.selected = @ \cup {app}]
    ELSE s

\* result is what the application's select returns: [ok, status, data]
handle_app_select(s, apps, aid, result) ==
    LET s1 == deselect_other(s, apps, aid)
        app == find_app(SomeAid(aid), apps)
    IN  IF s1.panicked THEN s1
        ELSE IF app # 0
        THEN IF s1.buffer.tag # "Request" THEN PanicIn(s1)
             ELSE LET s2 == [s1 EXCEPT !.log.calls =
                                 Append(@, [op |-> "select", app |-> app, ok |-> result.ok,
                                            status |-> result.status,
                                            cmd |-> s1.buffer.cmd,
                                            interface |-> s1.current_interface])]
                  IN  handle_app_response(commit_select(s2, result, aid, app),
                                          result, result.data)
        ELSE reply_error(s1, SW_NOT_FOUND)

\* result is what the application's call returns: [ok, status, data]
handle_app_command(s, apps, result) ==
    LET app == find_app(s.current_aid, apps)
    IN  IF app # 0
        THEN IF s.buffer.tag # "Request" THEN PanicIn(s)
             ELSE handle_app_response(
                      [s EXCEPT !.log.calls =
                           Append(@, [op |-> "call", app |-> app, ok |-> result.ok,
                                      status |-> result.status,
                                      cmd |-> s.buffer.cmd,
                                      interface |-> s.current_interface])],
                      result, result.data)
        ELSE reply_error(s, SW_NOT_FOUND)

\* poll_result that reports a response only on the poll that produced it
poll_result_fresh_only(s) ==
    IF s.log.out = << >> THEN "None"
    ELSE IF s.contactless.state = "Responded" THEN Contactless
    ELSE IF s.contact.state = "Responded" THEN Contact
    ELSE "None"

\* lines 446-452: what poll returns
poll_result(s) ==
    IF s.contactless.state = "Responded" THEN Contactless
    ELSE IF s.contact.state = "Responded" THEN Contact
    ELSE "None"

\* poll_execute that clears was_request_chained when there is nothing to handle
poll_execute_clearing(s, t, apps, result) ==
    IF s.panicked THEN s
    ELSE IF t.rt = "Select" THEN handle_app_select(s, apps, t.aid, result)
    ELSE IF t.rt = "GetResponse" THEN handle_reply(s)
    ELSE IF t.rt = "NewCommand" THEN handle_app_command(s, apps, result)
    ELSE [s EXCEPT !.was_request_chained = FALSE]

\* lines 423-443: the request type decides what is done
poll_execute(s, t, apps, result) ==
    IF s.panicked THEN s
    ELSE IF t.rt = "Select" THEN handle_app_select(s, apps, t.aid, result)
    ELSE IF t.rt = "GetResponse" THEN handle_reply(s)
    ELSE IF t.rt = "NewCommand" THEN handle_app_command(s, apps, result)
    ELSE s

poll_return(s) ==
    IF s.panicked THEN [s EXCEPT !.log.ret = "panic"]
    ELSE [s EXCEPT !.log.ret = poll_result(s)]

\* r is what check_for_request returned: the state it left and the request type
poll_dispatch(r, apps, result) ==
    poll_return(poll_execute([r.s EXCEPT !.log.rtype = r.t.rt, !.log.aid = r.t.aid],
                             r.t, apps, result))

poll(s, apps, result) ==
    poll_dispatch(check_for_request([s EXCEPT !.log = StartLog]), apps, result)

(***************************************************************************)
(* The applications handed to poll, the messages the readers send and what *)
(* an application may return.                                              *)
(***************************************************************************)
\* The caller's ordered list: the first application's AID extends the second's.
Apps == << [aid |-> << 160, 0, 0, 6, 71, 47 >>], [aid |-> << 160, 0, 0, 6, 71 >>] >>

AID_A1 == << 160, 0, 0, 6, 71, 47, 0, 1 >>
AID_A2 == << 160, 0, 0, 6, 71, 47, 0, 2 >>
AID_B == << 160, 0, 0, 6, 71, 1 >>
AID_UNKNOWN == << 255, 255, 255, 255, 255 >>
AID_LONG == [i \in 1..(AID_SIZE + 1) |-> IF i <= 6 THEN Apps[1].aid[i] ELSE 0]

SelectMessage(aid) == << 0, INS_SELECT, P1_BY_NAME, 0, Len(aid) >> \o aid

M_GET_RESPONSE == << 0, INS_GET_RESPONSE, 0, 0, 0 >>
M_COMMAND == << 0, 1, 0, 0, 2, 170, 187 >>
M_CHAIN == << CLA_CHAIN, 1, 0, 0, 1, 204 >>
M_TOO_SHORT == << 0, 1 >>
M_INVALID_CLASS == << CLA_INVALID, 1, 0, 0 >>

Messages ==
    {SelectMessage(a) : a \in {AID_A1, AID_A2, AID_B, AID_UNKNOWN, AID_LONG}}
    \cup {M_GET_RESPONSE, M_COMMAND, M_CHAIN, M_TOO_SHORT, M_INVALID_CLASS}

SMALL_RESPONSE == << 85, 50 >>
BIG_RESPONSE == [i \in 1..BigLen |-> i % 256]
\* Status::ConditionsOfUseNotSatisfied, 0x6985
SW_APP_ERROR == 27013

\* What select or call returns: Ok(()) with the response written, or Err(status)
Ok(data) == [ok |-> TRUE, status |-> SW_SUCCESS, data |-> data]
Err(status) == [ok |-> FALSE, status |-> status, data |-> << >>]
AppResults == {Ok(SMALL_RESPONSE), Ok(BIG_RESPONSE), Err(SW_APP_ERROR)}

(***************************************************************************)
(* The deferred logger of components/delog/src/logger.rs: a ring of bytes  *)
(* with the counters READ and WRITTEN.  try_enqueue is a sequence of       *)
(* steps (load WRITTEN, render, load READ, copy byte by byte, store        *)
(* WRITTEN); the logger is Sync, so a call from an interrupt may run from  *)
(* its first step to its last between any two steps of a call of the main  *)
(* context.  The records of the two contexts differ in every byte.         *)
(***************************************************************************)
\* $size of delog!: the length of BUFFER and of LOCAL_BUFFER
LOG_SIZE == 4

\* The calls of try_enqueue made in a behaviour are at most this many.
MaxCalls == 4

Context == {"main", "irq"}

\* What record.args() renders to
RecordsOf(c) ==
    IF c = "main" THEN {<< 11 >>, << 12, 13, 14 >>}
    ELSE {<< 21 >>, << 22, 23 >>}

IdleFrame == [pc |-> "idle", args |-> << >>, written |-> 0, read |-> 0,
              input_len |-> 0, k |-> 0]

NoJournal == [calls |-> 0, okBytes |-> 0, okRecords |-> << >>, interleaved |-> FALSE,
              drained |-> FALSE, out |-> << >>, expected |-> << >>]

\* The statics as the macro initialises them, and no call in progress
InitDelogger ==
    /\ BUFFER = [i \in 1..LOG_SIZE |-> 0]
    /\ LOCAL_BUFFER = [i \in 1..LOG_SIZE |-> 0]
    /\ READ = 0
    /\ WRITTEN = 0
    /\ frames = [c \in Context |-> IdleFrame]
    /\ journal = NoJournal

\* usize::wrapping_sub and wrapping_add; the counters of the model stay far
\* below the width of usize
wrapping_sub(a, b) == a - b
wrapping_add(a, b) == a + b

\* Delogger::render: the arguments are written to the start of the one
\* LOCAL_BUFFER, and the slice returned is its first Len(args) bytes
render(local_buffer, args) ==
    [i \in 1..LOG_SIZE |-> IF i <= Len(args) THEN args[i] ELSE local_buffer[i]]

\* The offset in BUFFER to which try_enqueue copies byte k of its input
\* (k from 0): the first memcpy up to the end of the ring, the second from
\* its start
enqueue_offset(w, input_len, k) ==
    IF w + input_len > LOG_SIZE
    THEN LET mid == LOG_SIZE - w
         IN  IF k < mid THEN w + k ELSE k - mid
    ELSE w + k

\* The offset in BUFFER from which drain_as_bytes copies byte k
drain_offset(r, available, k) ==
    IF r + available > LOG_SIZE
    THEN LET mid == LOG_SIZE - r
         IN  IF k < mid THEN r + k ELSE k - mid
    ELSE r + k

\* drain_as_bytes with a buf of buf_len bytes: the bytes returned and the
\* new value of READ
drain_as_bytes(ring, read, written, buf_len) ==
    IF written > read
    THEN LET available == Min({buf_len, wrapping_sub(written, read)})
             r == read % LOG_SIZE
         IN  [out |-> [k \in 1..available |-> ring[drain_offset(r, available, k - 1) + 1]],
              read |-> wrapping_add(read, available)]
    ELSE [out |-> << >>, read |-> read]

\* A context takes a step when no interrupt's call is in progress above it.
Runs(c) == c = "irq" \/ frames["irq"].pc = "idle"

\* The call of c is between its load of WRITTEN and its store.
InFlight(c) == frames[c].pc \in {"render", "load_read", "copy", "store"}

\* try_enqueue(record) is called in context c
Call(c, args) ==
    /\ Runs(c)
    /\ frames[c].pc = "idle"
    /\ journal.calls < MaxCalls
    /\ frames' = [frames EXCEPT ![c] = [IdleFrame EXCEPT !.pc = "load_written", !.args = args]]
    /\ journal' = [journal EXCEPT !.calls = @ + 1,
                                  !.interleaved = @ \/ (c = "irq" /\ InFlight("main"))]
    /\ UNCHANGED << BUFFER, READ, WRITTEN, LOCAL_BUFFER >>
    /\ UNCHANGED dispatcher

\* line 176
LoadWritten(c) ==
    /\ Runs(c)
    /\ frames[c].pc = "load_written"
    /\ frames' = [frames EXCEPT ![c].written = WRITTEN, ![c].pc = "render"]
    /\ UNCHANGED << BUFFER, READ, WRITTEN, LOCAL_BUFFER, journal >>
    /\ UNCHANGED dispatcher

\* lines 177-186
Render(c) ==
    /\ Runs(c)
    /\ frames[c].pc = "render"
    /\ LOCAL_BUFFER' = render(LOCAL_BUFFER, frames[c].args)
    /\ frames' = [frames EXCEPT ![c].input_len = Len(frames[c].args),
                                ![c].pc = IF Len(frames[c].args) > LOG_SIZE
                                          THEN "idle" ELSE "load_read"]
    /\ UNCHANGED << BUFFER, READ, WRITTEN, journal >>
    /\ UNCHANGED dispatcher

\* lines 190-194 and 221-223
LoadRead(c) ==
    /\ Runs(c)
    /\ frames[c].pc = "load_read"
    /\ frames' = [frames EXCEPT
                     ![c].read = READ,
                     ![c].k = 0,
                     ![c].pc = IF LOG_SIZE >= frames[c].input_len
                                                + wrapping_sub(frames[c].written, READ)
                               THEN "copy" ELSE "idle"]
    /\ UNCHANGED << BUFFER, READ, WRITTEN, LOCAL_BUFFER, journal >>
    /\ UNCHANGED dispatcher

\* lines 198-217: one byte of the input, which is a slice of LOCAL_BUFFER
Copy(c) ==
    /\ Runs(c)
    /\ frames[c].pc = "copy"
    /\ LET f == frames[c]
           w == f.written % LOG_SIZE
       IN  IF f.k < f.input_len
           THEN /\ BUFFER' = [BUFFER EXCEPT ![enqueue_offset(w, f.input_len, f.k) + 1] =
                                               LOCAL_BUFFER[f.k + 1]]
                /\ frames' = [frames EXCEPT ![c].k = @ + 1]
           ELSE /\ BUFFER' = BUFFER
                /\ frames' = [frames EXCEPT ![c].pc = "store"]
    /\ UNCHANGED << READ, WRITTEN, LOCAL_BUFFER, journal >>
    /\ UNCHANGED dispatcher

\* lines 219-220
Store(c) ==
    /\ Runs(c)
    /\ frames[c].pc = "store"
    /\ WRITTEN' = wrapping_add(frames[c].written, frames[c].input_len)
    /\ journal' = [journal EXCEPT !.okBytes = @ + frames[c].input_len,
                                  !.okRecords = Append(@, frames[c].args)]
    /\ frames' = [frames EXCEPT ![c] = IdleFrame]
    /\ UNCHANGED << BUFFER, READ, LOCAL_BUFFER >>
    /\ UNCHANGED dispatcher

\* Log::flush in the main context, no call in progress: dequeue with a buf
\* of $size bytes (line 59)
Drain ==
    /\ \A c \in Context : frames[c].pc = "idle"
    /\ LET d == drain_as_bytes(BUFFER, READ, WRITTEN, LOG_SIZE)
       IN  /\ READ' = d.read
           /\ journal' = [journal EXCEPT !.drained = TRUE, !.out = d.out,
                                         !.expected = journal.okRecords,
                                         !.okRecords = << >>]
    /\ UNCHANGED << BUFFER, WRITTEN, LOCAL_BUFFER, frames >>
    /\ UNCHANGED dispatcher

NextLog ==
    \/ \E c \in Context : \E args \in RecordsOf(c) : Call(c, args)
    \/ \E c \in Context : LoadWritten(c)
    \/ \E c \in Context : Render(c)
    \/ \E c \in Context : LoadRead(c)
    \/ \E c \in Context : Copy(c)
    \/ \E c \in Context : Store(c)
    \/ Drain

(***************************************************************************)
(* The state machine.                                                      *)
(***************************************************************************)
State == [current_aid |-> current_aid, contact |-> contact,
          contactless |-> contactless, current_interface |-> current_interface,
          buffer |-> buffer, was_request_chained |-> was_request_chained,
          panicked |-> panicked, selected |-> selected,
          respOrigin |-> respOrigin, log |-> log, SIZE |-> INTERCHANGE_SIZE]

\* ApduDispatch::new, with both channels idle
Init ==
    /\ current_aid = NoAid
    /\ contact = Idle
    /\ contactless = Idle
    /\ current_interface = Contact
    /\ buffer = BufNone
    /\ was_request_chained = FALSE
    /\ panicked = FALSE
    /\ selected = {}
    /\ respOrigin = Contact
    /\ log = NoLog
    /\ exchange = NoExchange
    /\ InitDelogger

BufferedLen == IF buffer.tag = "Request" THEN Len(buffer.cmd.data) ELSE 0

IsChainBlock(m) == Len(m) >= 4 /\ m[1] # CLA_INVALID /\ not_the_last(m[1])

\* Requester::request: a reader sends message m on the channel of interface i
Post(i, m) ==
    /\ ~panicked
    /\ IsChainBlock(m) => BufferedLen < MaxChainData
    /\ IF i = Contactless
       THEN contactless = Idle /\ contactless' = Requested(m) /\ contact' = contact
       ELSE contact = Idle /\ contact' = Requested(m) /\ contactless' = contactless
    /\ log' = NoLog
    /\ UNCHANGED << current_aid, current_interface, buffer, was_request_chained,
                    panicked, selected, respOrigin, exchange >>
    /\ UNCHANGED delogger

\* Requester::take_response: the reader of interface i takes the response
Reclaim(i) ==
    /\ ~panicked
    /\ IF i = Contactless
       THEN contactless.state = "Responded" /\ contactless' = Idle /\ contact' = contact
       ELSE contact.state = "Responded" /\ contact' = Idle /\ contactless' = contactless
    /\ log' = NoLog
    /\ UNCHANGED << current_aid, current_interface, buffer, was_request_chained,
                    panicked, selected, respOrigin, exchange >>
    /\ UNCHANGED delogger

\* The dispatcher's state becomes s.
Becomes(s) ==
    /\ current_aid' = s.current_aid
    /\ contact' = s.contact
    /\ contactless' = s.contactless
    /\ current_interface' = s.current_interface
    /\ buffer' = s.buffer
    /\ was_request_chained' = s.was_request_chained
    /\ panicked' = s.panicked
    /\ selected' = s.selected
    /\ respOrigin' = s.respOrigin
    /\ log' = s.log
    /\ UNCHANGED delogger

\* One call of ApduDispatch::poll(apps); result is what the application's
\* select or call returns when the poll invokes one.
Poll ==
    /\ ~panicked
    /\ \E result \in AppResults : Becomes(poll(State, Apps, result))
    /\ UNCHANGED exchange

Next ==
    \/ \E i \in Interface, m \in Messages : Post(i, m)
    \/ \E i \in Interface : Reclaim(i)
    \/ Poll

Spec == Init /\ [][Next]_vars

(***************************************************************************)
(* The exchange for the request in hand, as the readers see it.            *)
(***************************************************************************)
\* The message a poll finds, the contactless channel's first (lines 228-234)
TakenMessage(s) ==
    IF s.contactless.state = "Requested" THEN s.contactless.msg ELSE s.contact.msg

\* A reply without its status word, and its status word (0 when it has none)
StripSW(m) == IF Len(m) >= 2 THEN SubSeq(m, 1, Len(m) - 2) ELSE << >>
StatusOf(m) == IF Len(m) >= 2 THEN m[Len(m) - 1] * 256 + m[Len(m)] ELSE 0

LastReply(l) == IF l.out = << >> THEN << >> ELSE l.out[Len(l.out)].msg

\* An application's select or call returned Ok in the poll of log l.
Answered_by_app(l) ==
    \E i \in 1..Len(l.calls) : l.calls[i].op # "deselect" /\ l.calls[i].ok

\* The exchange after a poll that went from pre to post, result being what
\* the application returned if one was invoked.
observe(h, pre, post, result) ==
    LET l == post.log
        block == [chan |-> l.taken, cmd |-> Command_try_from(TakenMessage(pre)).cmd]
        blocks == IF pre.buffer.tag = "Request" THEN Append(h.blocks, block)
                  ELSE << block >>
    IN  IF l.taken = "none" \/ l.parsed # "ok" THEN h
        ELSE IF l.rtype = "GetResponse"
        THEN IF h.draining /\ l.taken = h.chan /\ ~post.panicked
                /\ pre.buffer.tag = "Response"
             THEN [h EXCEPT !.received = @ \o StripSW(LastReply(l)),
                            !.replies = @ + 1,
                            !.sw = StatusOf(LastReply(l))]
             ELSE [h EXCEPT !.draining = FALSE]
        ELSE IF not_the_last(block.cmd.cla)
        THEN [blocks |-> blocks, response |-> << >>, received |-> << >>,
              replies |-> 1, sw |-> StatusOf(LastReply(l)), chan |-> l.taken,
              draining |-> FALSE]
        ELSE IF Answered_by_app(l)
        THEN [blocks |-> blocks, response |-> result.data,
              received |-> StripSW(LastReply(l)),
              replies |-> Len(l.out), sw |-> StatusOf(LastReply(l)),
              chan |-> l.taken, draining |-> ~post.panicked]
        ELSE [blocks |-> blocks, response |-> << >>, received |-> << >>,
              replies |-> Len(l.out), sw |-> StatusOf(LastReply(l)), chan |-> l.taken,
              draining |-> FALSE]

\* One call of poll that goes from pre to post, with the exchange kept.
Observed(pre, post, result) ==
    /\ Becomes(post)
    /\ exchange' = observe(exchange, pre, post, result)

PollFrom(pre, result) == Observed(pre, poll(pre, Apps, result), result)

(***************************************************************************)
(* Chains of blocks up to the size of a message: the readers send blocks   *)
(* of one byte and blocks that fill a message, so that a chain can exceed  *)
(* the capacity of the buffered command.                                   *)
(***************************************************************************)
\* A reader sends at most this many blocks that are not the last of a chain.
MaxBlocks == 3

\* The most data bytes of one block: a message less the header and the
\* three length bytes of the extended form
BLOCK_MAX == INTERCHANGE_SIZE - 7

\* The bytes of a command as a reader sends it: the short form up to 255
\* data bytes, the extended form above (no Le)
Encode(cmd) ==
    LET header == << cmd.cla, cmd.ins, cmd.p1, cmd.p2 >>
        n == Len(cmd.data)
    IN  IF n = 0 THEN header
        ELSE IF n <= 255 THEN header \o << n >> \o cmd.data
        ELSE header \o << 0, n \div 256, n % 256 >> \o cmd.data

\* The big blocks leave room for a small block beside them in one message.
BigData == [i \in 1..(BLOCK_MAX - 3) |-> i % 251]

M_BIG_CHAIN == Encode(Command(CLA_CHAIN, 1, 0, 0, BigData, 0))
M_BIG_LAST == Encode(Command(0, 1, 0, 0, BigData, 0))
M_OTHER_CHAIN == << CLA_CHAIN, 2, 0, 0, 1, 221 >>

ChainMessages ==
    {SelectMessage(AID_A1), M_COMMAND, M_CHAIN, M_OTHER_CHAIN, M_BIG_CHAIN, M_BIG_LAST}

ChainResults == {Ok(SMALL_RESPONSE), Err(SW_APP_ERROR)}

\* Requester::request for the blocks of a chain
PostBlock(i, m) ==
    /\ ~panicked
    /\ IsChainBlock(m) => (buffer.tag # "Request" \/ Len(exchange.blocks) < MaxBlocks)
    /\ IF i = Contactless
       THEN contactless = Idle /\ contactless' = Requested(m) /\ contact' = contact
       ELSE contact = Idle /\ contact' = Requested(m) /\ contactless' = contactless
    /\ log' = NoLog
    /\ UNCHANGED << current_aid, current_interface, buffer, was_request_chained,
                    panicked, selected, respOrigin, exchange >>
    /\ UNCHANGED delogger

PollChain ==
    /\ ~panicked
    /\ \E result \in ChainResults : PollFrom(State, result)

\* The chains are those of the contact reader.
NextChain ==
    \/ \E m \in ChainMessages : PostBlock(Contact, m)
    \/ Reclaim(Contact)
    \/ PollChain

SpecChain == Init /\ [][NextChain]_vars

(***************************************************************************)
(* Responses up to the capacity of a response: the applications return     *)
(* responses of the lengths at which the drain changes its course, and the *)
(* contact reader fetches them with GET RESPONSE.                          *)
(***************************************************************************)
\* The lengths: around one chunk, around a chunk and the most 61xx can
\* state, around the capacity of a message, a chunk above it, and the most.
DrainLengths ==
    {0, 1, MAX_REMAINING, CHUNK_SIZE, CHUNK_SIZE + 1,
     CHUNK_SIZE + MAX_REMAINING, CHUNK_SIZE + MAX_REMAINING + 1,
     INTERCHANGE_SIZE - 2, INTERCHANGE_SIZE - 1, INTERCHANGE_SIZE,
     INTERCHANGE_SIZE + 1, INTERCHANGE_SIZE + CHUNK_SIZE - 1, RESPONSE_SIZE}

Response(L) == [i \in 1..L |-> i % 251]

DrainResults == {Ok(Response(L)) : L \in DrainLengths}

DrainMessages == {SelectMessage(AID_A1), M_COMMAND, M_CHAIN, M_GET_RESPONSE}

PollDrain ==
    /\ ~panicked
    /\ \E result \in DrainResults : PollFrom(State, result)

NextDrain ==
    \/ \E m \in DrainMessages : Post(Contact, m)
    \/ Reclaim(Contact)
    \/ PollDrain

SpecDrain == Init /\ [][NextDrain]_vars

(***************************************************************************)
(* A port whose messages hold 256 bytes, the transport of scenario 5: the  *)
(* same dispatcher built with interchanges::SIZE = 256.                    *)
(***************************************************************************)
PORT_SIZE == 256
\* The length of the response of scenario 5
SCENARIO_LEN == 600

PortState == [State EXCEPT !.SIZE = PORT_SIZE]

PortResults ==
    {Ok(Response(SCENARIO_LEN)), Ok(Response(PORT_SIZE - 2)), Ok(SMALL_RESPONSE),
     Err(SW_APP_ERROR)}

PollPort ==
    /\ ~panicked
    /\ \E result \in PortResults : PollFrom(PortState, result)

NextPort ==
    \/ \E m \in DrainMessages : Post(Contact, m)
    \/ Reclaim(Contact)
    \/ PollPort

SpecPort == Init /\ [][NextPort]_vars

(***************************************************************************)
(* Chains with both readers at work: either reader may send the next       *)
(* block while the other's chain is buffered.                              *)
(***************************************************************************)
BothMessages == {SelectMessage(AID_A1), M_COMMAND, M_CHAIN, M_OTHER_CHAIN}

PollBoth ==
    /\ ~panicked
    /\ \E result \in ChainResults : PollFrom(State, result)

NextBoth ==
    \/ \E i \in Interface, m \in BothMessages : PostBlock(i, m)
    \/ \E i \in Interface : Reclaim(i)
    \/ PollBoth

SpecBoth == Init /\ [][NextBoth]_vars

(***************************************************************************)
(* Progress: poll is called again and again and each reader takes every    *)
(* response posted to it.  The readers send when they like; nothing        *)
(* obliges them to send or to pause.  They send messages on which no poll  *)
(* panics, so that what is not answered is not answered for the order of   *)
(* intake alone.                                                           *)
(***************************************************************************)
LiveMessages == {SelectMessage(AID_A1), SelectMessage(AID_B), M_COMMAND, M_TOO_SHORT}

LiveResults == {Ok(SMALL_RESPONSE)}

PollLive ==
    /\ ~panicked
    /\ \E result \in LiveResults : Becomes(poll(State, Apps, result))
    /\ UNCHANGED exchange

NextLive ==
    \/ \E i \in Interface, m \in LiveMessages : Post(i, m)
    \/ \E i \in Interface : Reclaim(i)
    \/ PollLive

\* A poll would change the state: ENABLED <<PollLive>>_vars, written out.
PollWouldAct ==
    /\ ~panicked
    /\ \E result \in LiveResults : poll(State, Apps, result) # State

\* Weak fairness of poll, with its enabling condition written out.
PollAgainAndAgain == []<>(~PollWouldAct) \/ []<><<PollLive>>_vars

SpecLive ==
    /\ Init
    /\ [][NextLive]_vars
    /\ PollAgainAndAgain
    /\ \A i \in Interface : WF_vars(Reclaim(i))

\* The logger at work, the dispatcher at rest.
SpecLog == Init /\ [][NextLog]_vars

(***************************************************************************)
(* Properties.  A step is a poll exactly when log'.polled holds: the       *)
(* readers' steps reset the log.                                           *)
(***************************************************************************)
Calls(l, op) == {i \in 1..Len(l.calls) : l.calls[i].op = op}

\* C1: the applications with a successful select not followed by a deselect
\* are at most one; there is one only when current_aid is set, and it is
\* then the application current_aid resolves to.
C1_SingleSelection ==
    /\ Cardinality(selected) <= 1
    /\ selected # {} => current_aid.some /\ selected = {find_app(current_aid, Apps)}

\* A poll has just moved the selection from one application to another.
C1_Witness ==
    /\ log.polled
    /\ \E i \in Calls(log, "deselect"), j \in Calls(log, "select") :
         /\ log.calls[j].ok
         /\ log.calls[i].app # log.calls[j].app
         /\ selected = {log.calls[j].app}

\* C2: a poll invokes call on an application only if that application was
\* selected before the poll (its select returned Ok and it has not been
\* deselected since) and is the one current_aid resolves to; the poll
\* invokes nothing else.
C2_SelectPrecedesCall ==
    [][log'.polled =>
        \A i \in Calls(log', "call") :
            /\ log'.calls[i].app \in selected
            /\ current_aid.some
            /\ log'.calls[i].app = find_app(current_aid, Apps)
            /\ Len(log'.calls) = 1]_vars

\* A poll has just passed a command to the second application.
C2_Witness ==
    /\ log.polled
    /\ \E i \in Calls(log, "call") : log.calls[i].app = 2 /\ log.calls[i].ok

\* C3: a poll calls deselect exactly once, on the application selected
\* before, when the selection moves from that application to a different
\* one, and never when its SELECT names an AID that resolves to the
\* application already selected.
C3_DeselectOncePerTransition ==
    [][log'.polled =>
        LET before == find_app(current_aid, Apps)
            after == find_app(current_aid', Apps)
            target == find_app(SomeAid(log'.aid), Apps)
            deselects == Calls(log', "deselect")
        IN  /\ (before # 0 /\ after # 0 /\ before # after) =>
                   /\ Cardinality(deselects) = 1
                   /\ \A i \in deselects : log'.calls[i].app = before
            /\ (log'.rtype = "Select" /\ before # 0 /\ target = before) =>
                   deselects = {}]_vars

\* C4: every message a poll posts (the acknowledgement of a chained block,
\* the reply to an unparseable message, an error status, an application's
\* response, a chunk of a drain) is posted on the channel the poll took its
\* request from.
C4_ChannelFidelity ==
    log.polled => \A i \in 1..Len(log.out) :
                      log.taken \in Interface /\ log.out[i].chan = log.taken

\* A poll has just answered a GET RESPONSE from the contactless reader with
\* buffered bytes, and a poll before it served the contact reader.
C4_Witness ==
    /\ log.polled
    /\ log.taken = Contactless
    /\ log.rtype = "GetResponse"
    /\ log.drained # << >>
    /\ Len(log.out) = 1
    /\ contactless.state = "Responded"

\* C5: the bytes of an application's response are emitted only on the channel
\* whose request produced the response, also when a later GET RESPONSE
\* drains the rest.
C5_ResponseIsolation ==
    log.polled => \A i \in 1..Len(log.drained) : log.drained[i].origin = log.taken

NotBusy(chan) == chan.state \in {"Idle", "Requested"}

\* C6: a poll takes a request only when both channels are Idle or Requested,
\* and at most one channel is ever in Processing or Responded; a poll that
\* finds a channel busy leaves the other channel's request where it is.
C6_IntakeExclusion ==
    /\ [](NotBusy(contact) \/ NotBusy(contactless))
    /\ [][log'.polled =>
            /\ log'.taken # "none" => NotBusy(contact) /\ NotBusy(contactless)
            /\ ~(NotBusy(contact) /\ NotBusy(contactless)) =>
                   contact' = contact /\ contactless' = contactless]_vars

\* A poll has just run while the contact response was not yet taken, and has
\* left the contactless request waiting.
C6_Witness ==
    /\ log.polled
    /\ log.taken = "none"
    /\ contact.state = "Responded"
    /\ contactless.state = "Requested"

\* C7: a poll that finds both channels Requested takes the contactless
\* request and answers it, and leaves the contact request untouched; a poll
\* takes the contact request only when the contactless channel is Idle.
C7_ContactlessPriority ==
    [][log'.polled =>
        /\ (contact.state = "Requested" /\ contactless.state = "Requested") =>
               /\ log'.taken = Contactless
               /\ contactless'.state = "Responded"
               /\ contact' = contact
        /\ log'.taken = Contact => contactless.state = "Idle"]_vars

Answered(chan) == IF chan = Contactless THEN contactless.state = "Responded"
                  ELSE contact.state = "Responded"

\* C8: a poll that takes a request posts exactly one response, on that
\* channel, and no channel is left in Processing.
C8_RunToQuiescence ==
    /\ (log.polled /\ log.taken # "none") =>
           /\ Len(log.out) = 1
           /\ log.out[1].chan = log.taken
           /\ Answered(log.taken)
    /\ contact.state # "Processing"
    /\ contactless.state # "Processing"

\* C9: no poll panics, and a poll that takes a message sends a status word
\* to the reader.
C9_NoFatalPath ==
    /\ ~panicked
    /\ (log.polled /\ log.taken # "none") =>
           /\ Answered(log.taken)
           /\ Len(log.out) >= 1
           /\ Len(log.out[Len(log.out)].msg) >= 2

\* C10: a poll whose message fails to parse posts exactly 6F 00 on the
\* channel it took the message from, invokes no application, and leaves the
\* buffer, current_aid and was_request_chained as they were.
C10_ParseError ==
    [][(log'.polled /\ log'.parsed = "err") =>
        /\ log'.out = << [chan |-> log'.taken, msg |-> << 111, 0 >>] >>
        /\ (IF log'.taken = Contactless THEN contactless' ELSE contact').state = "Responded"
        /\ log'.calls = << >>
        /\ buffer' = buffer
        /\ current_aid' = current_aid
        /\ was_request_chained' = was_request_chained]_vars

\* A poll has just rejected an unparseable message while the rest of a
\* chained request's response was still buffered.
C10_Witness ==
    /\ log.polled
    /\ log.parsed = "err"
    /\ buffer.tag = "Response"
    /\ was_request_chained
    /\ current_aid.some

\* A poll has just rejected an unparseable message in the middle of a chain.
C10_WitnessChain ==
    /\ log.polled
    /\ log.parsed = "err"
    /\ buffer.tag = "Request"

\* A poll handled a SELECT that failed: its AID matched no application, or
\* the application's select returned Err.
FailedSelect(l) ==
    /\ l.polled
    /\ l.rtype = "Select"
    /\ \/ find_app(SomeAid(l.aid), Apps) = 0
       \/ \E i \in Calls(l, "select") : ~l.calls[i].ok

\* C11 as stated: a poll whose SELECT fails (no application matches its AID,
\* or select returns Err) leaves current_aid as it was before the poll,
\* whatever was selected before.
C11_FailedSelectKeepsSelection ==
    [][FailedSelect(log') => current_aid' = current_aid]_vars

\* C11 as the code has it: a poll whose SELECT fails never sets a new
\* selection.  current_aid is left as it was when it was none or held the
\* very AID of the SELECT; when it held a different AID the application it
\* resolves to is deselected first and current_aid is none after the poll.
C11_FailedSelectClearsOther ==
    [][FailedSelect(log') =>
        IF current_aid.some /\ current_aid.aid # log'.aid
        THEN /\ current_aid' = NoAid
             /\ selected' = {}
             /\ \E i \in Calls(log', "deselect") :
                    log'.calls[i].app = find_app(current_aid, Apps)
        ELSE /\ current_aid' = current_aid
             /\ selected' = selected
             /\ Calls(log', "deselect") = {}]_vars

\* A poll has just handled a SELECT of another application whose select
\* returned Err: the application selected before was deselected and nothing
\* is selected.
C11_Witness ==
    /\ FailedSelect(log)
    /\ Calls(log, "deselect") # {}
    /\ \E i \in Calls(log, "select") : ~log.calls[i].ok
    /\ current_aid = NoAid

\* C12: a poll whose SELECT names an AID that matches no application, or
\* whose command finds no application selected, posts exactly 6A 82 and
\* invokes no select and no call; a poll whose select or call returns
\* Err(status) posts exactly the two bytes of status; in each case the
\* buffer is empty after the poll.
C12_ErrorReplies ==
    [][log'.polled =>
        /\ (\/ log'.rtype = "Select" /\ find_app(SomeAid(log'.aid), Apps) = 0
            \/ log'.rtype = "NewCommand" /\ ~current_aid.some) =>
               /\ log'.out = << [chan |-> log'.taken, msg |-> << 106, 130 >>] >>
               /\ Calls(log', "select") = {}
               /\ Calls(log', "call") = {}
               /\ buffer' = BufNone
        /\ \A i \in Calls(log', "select") \cup Calls(log', "call") :
               ~log'.calls[i].ok =>
                   /\ log'.out = << [chan |-> log'.taken,
                                     msg |-> << log'.calls[i].status \div 256,
                                                log'.calls[i].status % 256 >>] >>
                   /\ buffer' = BufNone]_vars

\* A poll has just passed the last block of a chain to the selected
\* application, whose call returned Err: the status is the whole reply and
\* the assembled request is gone.
C12_Witness ==
    /\ log.polled
    /\ was_request_chained
    /\ \E i \in Calls(log, "call") :
           /\ ~log.calls[i].ok
           /\ Len(log.calls[i].cmd.data) > 2
           /\ log.out = << [chan |-> log.taken, msg |-> SWBytes(log.calls[i].status)] >>
    /\ buffer = BufNone

\* A poll has just answered a command with 6A 82 because nothing is selected.
C12_WitnessRouting ==
    /\ log.polled
    /\ log.rtype = "NewCommand"
    /\ log.calls = << >>
    /\ log.out = << [chan |-> log.taken, msg |-> SWBytes(SW_NOT_FOUND)] >>
    /\ buffer = BufNone

\* The block a poll finds on the channel it takes from, as parsed.
TakenBlock == Command_try_from(TakenMessage(State)).cmd

\* C13: a poll that takes a well-formed block with the chaining bit set
\* posts exactly 90 00 on the channel it took the block from, appends the
\* block's data to the buffered request (to an empty one if the buffer held
\* none), and invokes no select, call or deselect.
C13_ChainBlock ==
    [][(log'.polled /\ log'.parsed = "ok" /\ not_the_last(TakenBlock.cla)) =>
        /\ log'.out = << [chan |-> log'.taken, msg |-> << 144, 0 >>] >>
        /\ (IF log'.taken = Contactless THEN contactless' ELSE contact').state = "Responded"
        /\ log'.calls = << >>
        /\ buffer'.tag = "Request"
        /\ buffer'.cmd.data = (IF buffer.tag = "Request" THEN buffer.cmd.data ELSE << >>)
                                  \o TakenBlock.data]_vars

\* The class byte without its chaining bit
ClearChain(cla) == IF not_the_last(cla) THEN cla - CLA_CHAIN ELSE cla

SameHeader(a, b) ==
    /\ ClearChain(a.cla) = ClearChain(b.cla)
    /\ a.ins = b.ins /\ a.p1 = b.p1 /\ a.p2 = b.p2

RECURSIVE ConcatData(_)
ConcatData(blocks) ==
    IF blocks = << >> THEN << >>
    ELSE ConcatData(SubSeq(blocks, 1, Len(blocks) - 1)) \o blocks[Len(blocks)].cmd.data

\* What the applications were handed in the poll of log l: the operation,
\* the application, and the header and data of the command
Delivered(l) ==
    [i \in 1..Len(l.calls) |->
        [op |-> l.calls[i].op, app |-> l.calls[i].app,
         cla |-> l.calls[i].cmd.cla, ins |-> l.calls[i].cmd.ins,
         p1 |-> l.calls[i].cmd.p1, p2 |-> l.calls[i].cmd.p2,
         data |-> l.calls[i].cmd.data]]

\* The poll of the same dispatcher had nothing been buffered and the reader
\* of interface i sent command whole as one block
SingleBlockPoll(s, i, whole) ==
    poll([s EXCEPT !.buffer = BufNone,
                   !.contact = IF i = Contact THEN Requested(Encode(whole)) ELSE Idle,
                   !.contactless = IF i = Contactless THEN Requested(Encode(whole))
                                   ELSE Idle],
         Apps, Ok(<< >>))

\* The command of the chain that ends with block last, as one command
WholeCommand(blocks, last) ==
    Command(last.cla, last.ins, last.p1, last.p2, ConcatData(blocks), 0)

IsMoreAvailable(sw) == sw >= SW_MORE_AVAILABLE /\ sw <= SW_MORE_AVAILABLE + 255

IsPrefix(a, b) == Len(a) <= Len(b) /\ SubSeq(b, 1, Len(a)) = a

\* A poll step in which the reader of a response gets its next reply: the
\* poll in which the application returned the response, or a poll that
\* takes a GET RESPONSE of the same reader, who has sent nothing else since
\* and has not yet seen the final status.
ReaderDrainStep ==
    /\ log'.polled
    /\ \/ Answered_by_app(log')
       \/ /\ log'.rtype = "GetResponse" \/ log'.ret = "panic"
          /\ log'.parsed = "ok"
          /\ TakenBlock.ins = INS_GET_RESPONSE
          /\ exchange.draining
          /\ exchange.chan = log'.taken
          /\ IsMoreAvailable(exchange.sw)

\* C15: for a response of any length up to the capacity, in both modes:
\* the first reply and every reply to a GET RESPONSE of a reader who keeps
\* fetching ends in 61xx or 90 00 and brings the data received nearer to
\* the response; a reply that ends in 61xx carries further bytes of it, and
\* with the reply that ends in 90 00 the data of all replies (each without
\* its last two bytes) is the response.
C15_DrainCompleteness ==
    [][ReaderDrainStep =>
        /\ ~panicked'
        /\ exchange'.draining
        /\ exchange'.sw = SW_SUCCESS \/ IsMoreAvailable(exchange'.sw)
        /\ IsPrefix(exchange'.received, exchange'.response)
        /\ exchange'.sw = SW_SUCCESS => exchange'.received = exchange'.response
        /\ IsMoreAvailable(exchange'.sw) =>
               /\ Len(exchange'.received) < Len(exchange'.response)
               /\ Len(exchange'.received) >
                      (IF Answered_by_app(log') THEN 0 ELSE Len(exchange.received))]_vars

\* A poll step that runs the drain on a response: the poll in which the
\* application returned it, or a poll that takes a GET RESPONSE while the
\* buffer holds a response.
DrainStep ==
    /\ log'.polled
    /\ \/ Answered_by_app(log')
       \/ /\ log'.parsed = "ok"
          /\ ~not_the_last(TakenBlock.cla)
          /\ TakenBlock.ins = INS_GET_RESPONSE
          /\ buffer.tag = "Response"

\* The response the drain of the step starts from
DrainInput == IF Answered_by_app(log') THEN exchange'.response ELSE buffer.data

\* The reply of a drain step in chain mode on res, by the rule of the
\* chunks: the first min(256, L) bytes and the status word of what is left
ChunkOf(res) == SubSeq(res, 1, IF Len(res) < 256 THEN Len(res) ELSE 256)
RestOf(res) == SubSeq(res, Len(ChunkOf(res)) + 1, Len(res))
ChunkStatus(res) ==
    IF Len(RestOf(res)) > 255 THEN << 97, 0 >>
    ELSE IF Len(RestOf(res)) > 0 THEN << 97, Len(RestOf(res)) >>
    ELSE << 144, 0 >>

\* C16: a drain step on L remaining bytes, N being the most a message
\* holds, is in chain mode exactly when was_request_chained holds or
\* L + 2 > N; otherwise it posts the whole payload followed by 90 00 in one
\* message of at most N bytes and the buffer is empty.
C16_DrainMode ==
    [][DrainStep =>
        IF was_request_chained' \/ Len(DrainInput) + 2 > INTERCHANGE_SIZE
        THEN /\ ~panicked'
             /\ log'.out = << [chan |-> log'.taken,
                               msg |-> ChunkOf(DrainInput) \o ChunkStatus(DrainInput)] >>
        ELSE /\ ~panicked'
             /\ log'.out = << [chan |-> log'.taken,
                               msg |-> DrainInput \o << 144, 0 >>] >>
             /\ Len(log'.out[1].msg) <= INTERCHANGE_SIZE
             /\ buffer' = BufNone]_vars

\* C17: a drain step that the dispatcher takes in chain mode (line 283) on
\* L bytes posts min(256, L) data bytes followed by 61 00 when more than 255
\* remain after them, 61 xx when xx = 1..255 remain, 90 00 when none
\* remain; the buffer is empty exactly on 90 00 and otherwise holds exactly
\* the bytes that remain.
C17_ChainModeChunks ==
    [][(DrainStep /\ (was_request_chained' \/ Len(DrainInput) > INTERCHANGE_SIZE)) =>
        /\ ~panicked'
        /\ log'.out = << [chan |-> log'.taken,
                          msg |-> ChunkOf(DrainInput) \o ChunkStatus(DrainInput)] >>
        /\ Len(StripSW(log'.out[1].msg)) =
               (IF Len(DrainInput) < 256 THEN Len(DrainInput) ELSE 256)
        /\ (buffer' = BufNone) <=> (StatusOf(log'.out[1].msg) = SW_SUCCESS)
        /\ StatusOf(log'.out[1].msg) # SW_SUCCESS =>
               /\ buffer' = BufResponse(RestOf(DrainInput))
               /\ Len(buffer'.data) = Len(DrainInput) - 256]_vars

\* A poll has just answered a GET RESPONSE in chain mode with 256 bytes and
\* 61 00, more than 255 bytes being left in the buffer.
C17_Witness ==
    /\ log.polled
    /\ log.rtype = "GetResponse"
    /\ Len(log.out) = 1
    /\ Len(log.out[1].msg) = 258
    /\ StatusOf(log.out[1].msg) = SW_MORE_AVAILABLE
    /\ buffer.tag = "Response"
    /\ Len(buffer.data) > 255

\* A poll has just sent the last chunk of a drain in chain mode: fewer than
\* 256 bytes and 90 00, after a chunk that ended in 61 xx.
C17_WitnessLast ==
    /\ log.polled
    /\ log.rtype = "GetResponse"
    /\ was_request_chained
    /\ Len(log.out) = 1
    /\ Len(log.out[1].msg) = 257
    /\ StatusOf(log.out[1].msg) = SW_SUCCESS
    /\ buffer = BufNone
    /\ exchange.received = exchange.response

\* A poll step that answers the k-th GET RESPONSE of the reader of a
\* response of scenario 5, who has sent nothing else since the request
FetchOfScenario(k) ==
    /\ log'.polled
    /\ log'.rtype = "GetResponse"
    /\ exchange.draining
    /\ exchange.chan = log'.taken
    /\ exchange.response = Response(SCENARIO_LEN)
    /\ exchange.replies = k

\* C18: on the transport of 256 bytes, when the selected application
\* returns 600 bytes, the first reply is the first 254 bytes followed by
\* 61 00, the reply to the first GET RESPONSE is the next 256 bytes followed
\* by 61 5A, and the reply to the second GET RESPONSE is the last 90 bytes
\* followed by 90 00.
C18_Scenario5 ==
    [][/\ (/\ log'.polled
           /\ \E i \in Calls(log', "call") : log'.calls[i].ok
           /\ exchange'.response = Response(SCENARIO_LEN)) =>
              /\ ~panicked'
              /\ LastReply(log') = SubSeq(Response(SCENARIO_LEN), 1, 254) \o << 97, 0 >>
       /\ FetchOfScenario(1) =>
              LastReply(log') = SubSeq(Response(SCENARIO_LEN), 255, 510) \o << 97, 90 >>
       /\ FetchOfScenario(2) =>
              LastReply(log') = SubSeq(Response(SCENARIO_LEN), 511, 600) \o << 144, 0 >>
      ]_vars

\* C19: a poll that handles a GET RESPONSE, a command (its call returning Ok
\* or Err), a chained block that is not the last, or a message that fails to
\* parse leaves current_aid as it was, and so does a poll that takes
\* nothing; a poll that handles a GET RESPONSE invokes no application.
C19_OnlySelectMovesSelection ==
    [][log'.polled =>
        /\ log'.rtype # "Select" => current_aid' = current_aid /\ selected' = selected
        /\ log'.rtype = "GetResponse" => log'.calls = << >>]_vars

\* A poll has just drained buffered bytes on a GET RESPONSE while an
\* application is selected.
C19_Witness ==
    /\ log.polled
    /\ log.rtype = "GetResponse"
    /\ log.drained # << >>
    /\ log.calls = << >>
    /\ current_aid.some

\* A poll has just passed a command to the selected application, whose call
\* returned Err, and the application is still selected.
C19_WitnessCallErr ==
    /\ log.polled
    /\ log.rtype = "NewCommand"
    /\ \E i \in Calls(log, "call") : ~log.calls[i].ok
    /\ current_aid.some

\* C20: a poll that returns, returns Contactless if the contactless channel
\* is Responded when it finishes, else Contact if the contact channel is
\* Responded, else nothing; so it returns the interface on every poll made
\* while that channel's response has not been taken, also on a poll that
\* takes no request.
C20_PollResult ==
    (log.polled /\ ~panicked) =>
        /\ contactless.state = "Responded" => log.ret = Contactless
        /\ (contactless.state # "Responded" /\ contact.state = "Responded") =>
               log.ret = Contact
        /\ (contactless.state # "Responded" /\ contact.state # "Responded") =>
               log.ret = "None"

\* A poll has just run while the contact reader had not yet taken its
\* response: it took no request and returned Contact again.
C20_Witness ==
    /\ log.polled
    /\ log.taken = "none"
    /\ contact.state = "Responded"
    /\ log.ret = Contact

\* A poll has just answered the contactless reader and returned Contactless
\* while the contact reader's next request waits.
C20_WitnessContactless ==
    /\ log.polled
    /\ log.taken = Contactless
    /\ contact.state = "Requested"
    /\ log.ret = Contactless

\* C21: whenever the buffer holds a response (a drain is pending), an
\* application is selected: current_aid is set and resolves to the
\* application whose select returned Ok last.
C21_ResponseImpliesSelection ==
    buffer.tag = "Response" =>
        /\ current_aid.some
        /\ selected = {find_app(current_aid, Apps)}

\* A poll has just answered a SELECT with the first chunk of the
\* application's response; the rest is buffered and the application is
\* selected.
C21_Witness ==
    /\ log.polled
    /\ log.rtype = "Select"
    /\ buffer.tag = "Response"
    /\ Len(buffer.data) > 0
    /\ current_aid.some

\* The poll takes a block that parses and has its chaining bit clear while
\* no chain is in progress.
TakesSingleBlock ==
    /\ log'.polled
    /\ log'.taken # "none"
    /\ log'.parsed = "ok"
    /\ ~not_the_last(TakenBlock.cla)
    /\ buffer.tag # "Request"

\* A non-chained Select or NewCommand block starts a new Request.
StartsFreshRequest ==
    /\ TakesSingleBlock
    /\ apdu_type(TakenBlock).rt \in {"Select", "NewCommand"}

\* C22: was_request_chained is false after every poll in which a non-chained
\* Select or NewCommand block starts a new Request, whether the buffer was
\* empty or held a stale response, and no other poll takes it from true to
\* false.
C22_ClearedExactlyOnFreshRequest ==
    [][/\ StartsFreshRequest => ~was_request_chained'
       /\ ~StartsFreshRequest /\ was_request_chained => was_request_chained']_vars

\* Every response of the poll went to the channel that current_interface
\* names after the poll.
EmittedOnCurrentInterface ==
    \A k \in 1..Len(log'.out) : log'.out[k].chan = current_interface'

C23_WitnessParsed ==
    /\ log.polled
    /\ log.parsed = "ok"
    /\ Len(log.out) = 1
    /\ log.out[1].chan = Contactless
    /\ contactless.state = "Responded"
    /\ current_interface = Contactless

\* Every byte of the application's AID is the byte of the queried AID at
\* the same place.
BytewisePrefix(prefix, aid) ==
    /\ Len(prefix) <= Len(aid)
    /\ \A k \in 1..Len(prefix) : aid[k] = prefix[k]

\* The first application in list order whose AID is a prefix of the queried
\* AID, 0 when there is none.
FirstMatch(aid, apps) ==
    IF \E i \in 1..Len(apps) : BytewisePrefix(apps[i].aid, aid)
    THEN CHOOSE i \in 1..Len(apps) :
             /\ BytewisePrefix(apps[i].aid, aid)
             /\ \A j \in 1..(i - 1) : ~BytewisePrefix(apps[j].aid, aid)
    ELSE 0

\* Application lists in which the more specific AID comes first, comes
\* last, or stands alone.
AppLists ==
    {Apps, << Apps[2], Apps[1] >>, << Apps[1] >>, << Apps[2] >>, << >>}

\* C24: lookup returns the first application in list order whose AID is a
\* bytewise prefix of the queried AID and none exactly when no
\* application's AID is a prefix of it; a poll that takes a SELECT calls
\* select on that application, and answers 6A 82 without calling select when
\* there is none.
C24_FirstPrefixMatch ==
    [][log'.polled /\ log'.rtype = "Select" =>
          LET aid == log'.aid
              app == FirstMatch(aid, Apps)
          IN  /\ \A apps \in AppLists :
                    find_app(SomeAid(aid), apps) = FirstMatch(aid, apps)
              /\ app # 0 =>
                    /\ \A i \in Calls(log', "select") : log'.calls[i].app = app
                    /\ Cardinality(Calls(log', "select")) = 1
              /\ app = 0 =>
                    /\ Calls(log', "select") = {}
                    /\ log'.out = << [chan |-> log'.taken, msg |-> SWBytes(SW_NOT_FOUND)] >>]_vars

\* A SELECT whose AID both applications' AIDs are prefixes of went to the
\* first application of the list.
C24_Witness ==
    /\ log.polled
    /\ log.rtype = "Select"
    /\ \A i \in 1..Len(Apps) : BytewisePrefix(Apps[i].aid, log.aid)
    /\ \E i \in Calls(log, "select") : log.calls[i].app = 1

\* A SELECT whose AID no application's AID is a prefix of was answered
\* 6A 82.
C24_WitnessNone ==
    /\ log.polled
    /\ log.rtype = "Select"
    /\ \A i \in 1..Len(Apps) : ~BytewisePrefix(Apps[i].aid, log.aid)
    /\ log.out = << [chan |-> log.taken, msg |-> SWBytes(SW_NOT_FOUND)] >>

\* The poll takes a GET RESPONSE block with its chaining bit clear.
TakesGetResponse ==
    /\ log'.polled
    /\ log'.taken # "none"
    /\ log'.parsed = "ok"
    /\ ~not_the_last(TakenBlock.cla)
    /\ TakenBlock.ins = INS_GET_RESPONSE

\* The poll answers 6F 00, calls no application and leaves the buffer empty.
RefusedWithUnspecifiedError ==
    /\ log'.out = << [chan |-> log'.taken, msg |-> SWBytes(SW_UNSPECIFIED_CHECKING_ERROR)] >>
    /\ log'.calls = << >>
    /\ buffer' = BufNone

\* C25: a GET RESPONSE block that arrives while the buffer is empty or holds
\* a request (a chain in progress) is answered with exactly 6F 00, is not
\* delivered to any application and leaves the buffer empty.
C25_SpuriousGetResponse ==
    [][TakesGetResponse /\ buffer.tag \in {"None", "Request"} =>
          RefusedWithUnspecifiedError]_vars

\* A channel is in Processing or Responded, or no channel is Requested.
NoRequestToTake ==
    \/ contactless.state \in {"Processing", "Responded"}
    \/ contact.state \in {"Processing", "Responded"}
    \/ (contactless.state # "Requested" /\ contact.state # "Requested")

\* C26: a poll takes no request exactly when a channel is in Processing or
\* Responded or no channel is Requested; such a poll leaves current_aid,
\* current_interface, the buffer, was_request_chained and both channels as
\* they were, so that a request waiting on the other channel stays
\* Requested, and it invokes no application and emits nothing.
C26_IdlePollChangesNothing ==
    [][log'.polled =>
          /\ log'.taken = "none" <=> NoRequestToTake
          /\ log'.taken = "none" =>
                /\ UNCHANGED << current_aid, current_interface, buffer,
                                was_request_chained, contact, contactless,
                                selected, panicked >>
                /\ log'.calls = << >>
                /\ log'.out = << >>
                /\ log'.rtype = "None"]_vars

\* A poll found the contact channel still Responded and took nothing: the
\* request waiting on the contactless channel is still there, and so is
\* the buffered response.
C26_Witness ==
    /\ log.polled
    /\ log.taken = "none"
    /\ contact.state = "Responded"
    /\ contactless.state = "Requested"
    /\ buffer.tag = "Response"

\* A poll found both channels Idle and took nothing.
C26_WitnessIdle ==
    /\ log.polled
    /\ log.taken = "none"
    /\ contact.state = "Idle"
    /\ contactless.state = "Idle"
    /\ current_aid.some

\* The poll ended in the panic of handle_app_select or handle_app_command:
\* the application was found and the poll panicked before invoking it.
UnexpectedBufferStatePanic ==
    /\ log'.polled
    /\ panicked'
    /\ \/ /\ log'.rtype = "Select"
          /\ find_app(SomeAid(log'.aid), Apps) # 0
          /\ Calls(log', "select") = {}
       \/ /\ log'.rtype = "NewCommand"
          /\ find_app(current_aid, Apps) # 0
          /\ Calls(log', "call") = {}

\* The command the buffer holds once the block taken is buffered.
RequestBuffered == ApduBuffer_request(buffer, TakenBlock).cmd

\* C27: no poll ends in the "Unexpected buffer state" panic of
\* handle_app_select or handle_app_command: every select and call is handed
\* the command of the buffer, which is a Request holding the block taken;
\* and the buffer holds a Request after a poll only when that poll accepted
\* a block with its chaining bit set, or accepted no block and found the
\* Request there; no other step changes the buffer.
C27_RequestWhenInvoked ==
    [][/\ ~UnexpectedBufferStatePanic
       /\ log'.polled =>
             \A i \in Calls(log', "select") \cup Calls(log', "call") :
                 /\ log'.rtype \in {"Select", "NewCommand"}
                 /\ log'.calls[i].cmd = RequestBuffered
       /\ log'.polled /\ buffer'.tag = "Request" =>
             \/ log'.parsed = "ok" /\ not_the_last(TakenBlock.cla)
             \/ log'.parsed # "ok" /\ buffer' = buffer
       /\ ~log'.polled => buffer' = buffer]_vars

\* A call was handed the command assembled from a chain, and the poll
\* returned.
C27_Witness ==
    /\ log.polled
    /\ ~panicked
    /\ was_request_chained
    /\ \E i \in Calls(log, "call") : Len(log.calls[i].cmd.data) > 2

\* Between polls the buffer holds a Request: the block accepted last had
\* its chaining bit set and was acknowledged.
C27_WitnessChain ==
    /\ log.polled
    /\ log.parsed = "ok"
    /\ log.rtype = "None"
    /\ buffer.tag = "Request"
    /\ log.out = << [chan |-> log.taken, msg |-> SWBytes(SW_SUCCESS)] >>

\* C28: every block whose data is assembled into a command delivered to call
\* was taken from the same channel, and that channel is the interface
\* passed to call.
C28_ChainOnOneChannel ==
    [][log'.polled =>
          \A i \in Calls(log', "call") :
              \A k \in 1..Len(exchange'.blocks) :
                  /\ exchange'.blocks[k].chan = exchange'.blocks[1].chan
                  /\ exchange'.blocks[k].chan = log'.calls[i].interface]_vars

\* The poll takes a single non-chained block, an application answers it Ok,
\* and the response with its status word fits a message.
SingleBlockAnsweredWithin ==
    /\ TakesSingleBlock
    /\ Answered_by_app(log')
    /\ Len(exchange'.response) + 2 <= INTERCHANGE_SIZE

\* The reader gets one message: the whole response followed by 90 00.
WholeResponseInOneMessage ==
    /\ log'.out = << [chan |-> log'.taken,
                      msg |-> exchange'.response \o SWBytes(SW_SUCCESS)] >>
    /\ buffer' = BufNone

\* C29: the response to a request that arrived as a single non-chained
\* block, and that fits a message together with its status word, is
\* returned in one message, the whole response followed by 90 00, whatever
\* the earlier exchanges were.
C29_SingleBlockSingleReply ==
    [][SingleBlockAnsweredWithin => WholeResponseInOneMessage]_vars

\* C30: the command passed to call at the end of a chain contains, in
\* arrival order, the data of every block of the chain that was
\* acknowledged with 90 00 and then the data of the final block: no
\* application is handed a command short of a block's data.
C30_NoChainDataDropped ==
    [][log'.polled =>
          \A i \in Calls(log', "call") :
              log'.calls[i].cmd.data = ConcatData(exchange'.blocks)]_vars

\* C31: with poll called again and again and every response reclaimed,
\* every request posted on either channel is eventually taken and
\* answered, the request of the contact reader also while the contactless
\* reader keeps posting.
C31_EveryRequestAnswered ==
    /\ (contact.state = "Requested") ~> (contact.state = "Responded")
    /\ (contactless.state = "Requested") ~> (contactless.state = "Responded")

\* Every call of try_enqueue has returned.
AllReturned == \A c \in Context : frames[c].pc = "idle"

RECURSIVE Flatten(_)
Flatten(records) ==
    IF records = << >> THEN << >>
    ELSE Head(records) \o Flatten(Tail(records))

\* The byte strings that hold every one of the records whole, in any order
Intact(records) ==
    LET n == Len(records)
        orders == {f \in [1..n -> 1..n] : \A i, j \in 1..n : f[i] = f[j] => i = j}
    IN  {Flatten([i \in 1..n |-> records[f[i]]]) : f \in orders}

\* C32: once a call of try_enqueue has run between another call's load of
\* WRITTEN and its store, no record is lost or overwritten: when the calls
\* have returned, WRITTEN has advanced by the lengths of all records that
\* returned Ok, WRITTEN - READ is never above the capacity, and a later
\* dequeue returns the bytes of the records returned Ok since the dequeue
\* before, every record whole.
C32_InterleavedEnqueueKeepsRecords ==
    journal.interleaved =>
        /\ wrapping_sub(WRITTEN, READ) <= LOG_SIZE
        /\ AllReturned =>
              /\ WRITTEN = journal.okBytes
              /\ journal.drained => journal.out \in Intact(journal.expected)

(***************************************************************************)
(* What the panic of apdu_type leaves standing.                            *)
(***************************************************************************)
\* The only panic a poll reaches is the unwrap of apdu_type: the message
\* parsed, no request type was returned and nothing was posted.
PanicOnlyInApduType ==
    panicked => /\ log.parsed = "ok"
                /\ log.rtype = "None"
                /\ log.out = << >>
                /\ log.calls = << >>
                /\ (IF log.taken = Contactless THEN contactless ELSE contact).state
                       = "Processing"

\* In the polls that return, a request taken is answered exactly once.
ReturningPollAnswersOnce == ~panicked => C8_RunToQuiescence

\* In the polls that return, the contactless request is served first.
ReturningPollServesContactlessFirst ==
    [][(log'.polled /\ ~panicked') =>
        /\ (contact.state = "Requested" /\ contactless.state = "Requested") =>
               /\ log'.taken = Contactless
               /\ contactless'.state = "Responded"
               /\ contact' = contact
        /\ log'.taken = Contact => contactless.state = "Idle"]_vars

\* The bytes buffered for the request in hand.
Buffered == IF buffer.tag = "Request" THEN buffer.cmd.data ELSE << >>

\* While the chain fits the buffered command, C13 holds: the block is
\* acknowledged and its data appended.
ChainBlockAppendedWhileItFits ==
    [][(/\ log'.polled /\ log'.parsed = "ok" /\ not_the_last(TakenBlock.cla)
        /\ Len(Buffered) + Len(TakenBlock.data) <= COMMAND_SIZE) =>
        /\ log'.out = << [chan |-> log'.taken, msg |-> << 144, 0 >>] >>
        /\ log'.calls = << >>
        /\ buffer'.tag = "Request"
        /\ buffer'.cmd.data = Buffered \o TakenBlock.data]_vars

\* A block that does not fit is acknowledged all the same and its data is
\* not buffered.
ChainBlockDroppedWhenItDoesNotFit ==
    [][(/\ log'.polled /\ log'.parsed = "ok" /\ not_the_last(TakenBlock.cla)
        /\ Len(Buffered) + Len(TakenBlock.data) > COMMAND_SIZE) =>
        /\ log'.out = << [chan |-> log'.taken, msg |-> << 144, 0 >>] >>
        /\ buffer'.tag = "Request"
        /\ buffer'.cmd.data = Buffered]_vars

\* A drain step panics exactly when the request was not chained and the
\* remaining response is one or no byte short of a message (line 317).
DrainPanicsAtMessageSize ==
    [][DrainStep =>
        (panicked' <=> /\ ~was_request_chained'
                       /\ Len(DrainInput) \in {INTERCHANGE_SIZE - 1, INTERCHANGE_SIZE})]_vars

\* Apart from those two lengths the drain is complete and its mode is the
\* one the rule L + 2 > N gives.
DrainCompleteWhenItReturns ==
    [][(ReaderDrainStep /\ ~panicked') =>
        /\ exchange'.draining
        /\ exchange'.sw = SW_SUCCESS \/ IsMoreAvailable(exchange'.sw)
        /\ IsPrefix(exchange'.received, exchange'.response)
        /\ exchange'.sw = SW_SUCCESS => exchange'.received = exchange'.response
        /\ IsMoreAvailable(exchange'.sw) =>
               /\ Len(exchange'.received) < Len(exchange'.response)
               /\ Len(exchange'.received) >
                      (IF Answered_by_app(log') THEN 0 ELSE Len(exchange.received))]_vars

DrainModeWhenItReturns ==
    [][(DrainStep /\ ~panicked') =>
        IF was_request_chained' \/ Len(DrainInput) + 2 > INTERCHANGE_SIZE
        THEN log'.out = << [chan |-> log'.taken,
                            msg |-> ChunkOf(DrainInput) \o ChunkStatus(DrainInput)] >>
        ELSE /\ log'.out = << [chan |-> log'.taken,
                               msg |-> DrainInput \o << 144, 0 >>] >>
             /\ Len(log'.out[1].msg) <= INTERCHANGE_SIZE
             /\ buffer' = BufNone]_vars

\* A response of the greatest length has just been fetched whole.
LongestDrainCompleted ==
    /\ log.polled
    /\ exchange.draining
    /\ exchange.sw = SW_SUCCESS
    /\ Len(exchange.response) = RESPONSE_SIZE
    /\ exchange.received = exchange.response

\* A poll has just panicked on a GET RESPONSE in the middle of a drain: a
\* chunk had been sent and what was left was one byte short of a message.
DrainPanickedMidway ==
    /\ panicked
    /\ log.polled
    /\ exchange.received # << >>
    /\ buffer.tag = "Response"
    /\ Len(buffer.data) = INTERCHANGE_SIZE - 1

\* What the port of 256 bytes does in scenario 5: every reply to the
\* response of 600 bytes that is not the last is 256 data bytes and no status
\* word, which does not fit the message (line 300); the replies are 256, 256
\* and 88 + 2 bytes.
PortDropsTheStatusWord ==
    [][/\ (/\ log'.polled
           /\ \E i \in Calls(log', "call") : log'.calls[i].ok
           /\ exchange'.response = Response(SCENARIO_LEN)) =>
              LastReply(log') = SubSeq(Response(SCENARIO_LEN), 1, 256)
       /\ FetchOfScenario(1) =>
              LastReply(log') = SubSeq(Response(SCENARIO_LEN), 257, 512)
       /\ FetchOfScenario(2) =>
              LastReply(log') = SubSeq(Response(SCENARIO_LEN), 513, 600) \o << 144, 0 >>
      ]_vars

\* The last reply of scenario 5 on the port has just been posted.
PortScenarioFetched ==
    /\ log.polled
    /\ log.rtype = "GetResponse"
    /\ exchange.response = Response(SCENARIO_LEN)
    /\ exchange.replies = 3
    /\ buffer = BufNone

\* was_request_chained goes from true to false exactly in the polls that
\* take a parseable block with its chaining bit clear while the buffer is
\* empty, whatever the type of the block; a stale response keeps it.
ClearedExactlyWhenBufferEmpty ==
    [][was_request_chained =>
          (~was_request_chained' <=> TakesSingleBlock /\ buffer.tag = "None")]_vars

\* A GET RESPONSE that finds the buffer empty, as after the final 90 00
\* chunk of a drain, is answered 6F 00 and reaches no application.
GetResponseOnEmptyBufferRefused ==
    [][TakesGetResponse /\ buffer.tag = "None" => RefusedWithUnspecifiedError]_vars

\* A GET RESPONSE that finds a chain in progress ends the chain: it is
\* classified NewCommand, and the chain's data goes to call with the
\* header of the GET RESPONSE when an application is selected, or 6A 82 is
\* answered when none is; 6F 00 is never the answer.
GetResponseInChainIsFinalBlock ==
    [][TakesGetResponse /\ buffer.tag = "Request" =>
          /\ log'.rtype = "NewCommand"
          /\ was_request_chained'
          /\ IF current_aid.some
             THEN /\ Cardinality(Calls(log', "call")) = 1
                  /\ \A i \in Calls(log', "call") :
                        /\ log'.calls[i].cmd.ins = INS_GET_RESPONSE
                        /\ log'.calls[i].cmd.data = buffer.cmd.data
             ELSE /\ log'.calls = << >>
                  /\ log'.out = << [chan |-> log'.taken, msg |-> SWBytes(SW_NOT_FOUND)] >>]_vars

\* The interface passed to call is the channel of the block that ended the
\* chain, whichever channels the earlier blocks came from.
CallInterfaceIsLastBlockChannel ==
    [][log'.polled =>
          \A i \in Calls(log', "call") :
              /\ exchange'.blocks # << >>
              /\ log'.calls[i].interface = exchange'.blocks[Len(exchange'.blocks)].chan
              /\ log'.calls[i].interface = log'.taken
              /\ log'.calls[i].cmd.data = ConcatData(exchange'.blocks)]_vars

\* A call was handed a command assembled from a block of the contact reader
\* and a block of the contactless reader.
ChainMixedChannels ==
    /\ log.polled
    /\ Calls(log, "call") # {}
    /\ Len(exchange.blocks) = 2
    /\ exchange.blocks[1].chan = Contact
    /\ exchange.blocks[2].chan = Contactless
    /\ \A i \in Calls(log, "call") :
          /\ log.calls[i].interface = Contactless
          /\ log.calls[i].cmd.data = exchange.blocks[1].cmd.data \o exchange.blocks[2].cmd.data

\* The single-block request that finds the buffer empty is answered in one
\* message when its response fits.
SingleReplyWhenBufferEmpty ==
    [][SingleBlockAnsweredWithin /\ buffer.tag = "None" => WholeResponseInOneMessage]_vars

\* The single-block request that replaces a stale response of a chained
\* request is answered as the chained request was: at most a chunk, then
\* 61xx while bytes remain.
StaleFlagChunksTheReply ==
    [][SingleBlockAnsweredWithin /\ buffer.tag = "Response" /\ was_request_chained =>
          /\ was_request_chained'
          /\ log'.out = << [chan |-> log'.taken,
                            msg |-> chained_reply(exchange'.response, INTERCHANGE_SIZE).message] >>
          /\ Len(exchange'.response) > CHUNK_SIZE => StatusOf(LastReply(log')) # SW_SUCCESS]_vars

\* A call was handed a command that lacks the data of an acknowledged block:
\* the chain had grown past the capacity of a command.
TruncatedCommandDelivered ==
    /\ log.polled
    /\ ~panicked
    /\ \E i \in Calls(log, "call") :
          /\ Len(ConcatData(exchange.blocks)) > COMMAND_SIZE
          /\ Len(log.calls[i].cmd.data) < Len(ConcatData(exchange.blocks))
          /\ IsPrefix(log.calls[i].cmd.data, ConcatData(exchange.blocks))

\* While the blocks of a chain fit a command together, call is handed all
\* of their data in arrival order.
ChainDataDeliveredWhileItFits ==
    [][log'.polled /\ Len(ConcatData(exchange'.blocks)) <= COMMAND_SIZE =>
          \A i \in Calls(log', "call") :
              log'.calls[i].cmd.data = ConcatData(exchange'.blocks)]_vars

\* A request of the contactless reader is always answered.
ContactlessRequestAnswered ==
    (contactless.state = "Requested") ~> (contactless.state = "Responded")

\* A request of the contact reader is answered once the contactless reader
\* stops sending.
ContactRequestAnsweredWhenContactlessRests ==
    <>[](contactless.state = "Idle") =>
        ((contact.state = "Requested") ~> (contact.state = "Responded"))

\* No poll of the progress specification panics.
NoPanicInProgress == ~panicked

\* The contact request waits while the contactless reader's next request is
\* answered.
ContactWaitsBehindContactless ==
    /\ log.polled
    /\ ~panicked
    /\ log.taken = Contactless
    /\ contactless.state = "Responded"
    /\ contact.state = "Requested"

\* While no call of try_enqueue has run inside another, WRITTEN counts the
\* bytes of the records returned Ok and a dequeue returns them whole, in
\* the order in which the calls returned.
SequentialEnqueueKeepsRecords ==
    ~journal.interleaved /\ AllReturned =>
        /\ WRITTEN = journal.okBytes
        /\ journal.drained => journal.out = Flatten(journal.expected)

\* The ring never holds more than its capacity, and READ is never ahead of
\* WRITTEN.
RingWithinCapacity ==
    /\ READ <= WRITTEN
    /\ wrapping_sub(WRITTEN, READ) <= LOG_SIZE

\* Two calls returned Ok, one of them inside the other, and WRITTEN has
\* advanced by the length of one record only.
InterleavedEnqueueLosesUpdate ==
    /\ journal.interleaved
    /\ AllReturned
    /\ Len(journal.okRecords) = 2
    /\ journal.okBytes = Len(Flatten(journal.okRecords))
    /\ WRITTEN < journal.okBytes

\* A dequeue after two such calls returned the bytes of one record only.
InterleavedEnqueueLosesRecord ==
    /\ journal.interleaved
    /\ journal.drained
    /\ Len(journal.expected) = 2
    /\ journal.out \notin Intact(journal.expected)
    /\ Len(journal.out) < Len(Flatten(journal.expected))

\* A poll deselects on a SELECT exactly when the AID bytes differ from those
\* of current_aid, also when both resolve to the same application.
DeselectIffAidBytesDiffer ==
    [][(log'.polled /\ log'.rtype = "Select") =>
        (Calls(log', "deselect") # {}
            <=> (current_aid.some /\ current_aid.aid # log'.aid))]_vars

====
